---- MODULE Spec2Model ----
(***************************************************************************)
(* Model of engine/src/skip_list.rs: the slab-backed note skip list        *)
(* (NoteSkipList), its recursive search, and the multi-line index          *)
(* (NoteLines) with its gap query get_bounds.                              *)
(*                                                                         *)
(* Beats are f32 in the source; the model draws them from 0..MaxBeat.      *)
(* Slab keys are positive integers; the value 0 is the niche that encodes  *)
(* an absent Option<SlabKey<T>>.  The arenas are sequences whose index is  *)
(* the slab key (slot 0 is reserved and never issued).                     *)
(***************************************************************************)
EXTENDS Integers, Sequences, FiniteSets, TLC

\* ---------------------------------------------------------------- bounds
\* beats are drawn from 0..MaxBeat
MaxBeat == 3
\* an inserted note box spans at most MaxLen beats
MaxLen == 2
\* capacity granted to the node arena (and so to the note arena)
MaxNodes == 3
\* the argument of NoteLines::new
NumLines == 2

\* ------------------------------------------------------------- constants
NOTE_SKIP_LIST_LEVELS == 5

Levels == 0..(NOTE_SKIP_LIST_LEVELS - 1)
Beats == 0..MaxBeat
LineIxs == 0..(NumLines - 1)

\* Option<T>: None is the empty sequence, Some(x) the one-element sequence.
NoneV == <<>>
SomeV(x) == <<x>>

\* Option<SlabKey<T>>: the niche value 0 is None.
NoKey == 0

\* NoteBox { start_beat, end_beat }, with start_beat <= end_beat.
NoteBox == {[start_beat |-> s, end_beat |-> e] : s \in Beats, e \in Beats}
NoteBoxes ==
    {n \in NoteBox : n.start_beat <= n.end_beat /\ n.end_beat - n.start_beat <= MaxLen}

\* derived Ord of NoteBox: by start_beat, then end_beat
NoteLess(a, b) ==
    \/ a.start_beat < b.start_beat
    \/ a.start_beat = b.start_beat /\ a.end_beat < b.end_beat

VARIABLES notes, nodes, lines, inserted, last, panicked, debug_ptrs

vars == <<notes, nodes, lines, inserted, last, panicked, debug_ptrs>>

\* ------------------------------------------------------------ pure parts

blank_shortcuts == [l \in Levels |-> NoKey]

\* the drawn booleans are rng.gen::<bool>(); TRUE breaks out of the loop
\* the loop with the bug of running NOTE_SKIP_LIST_LEVELS times
RECURSIVE LevelFromUncapped(_, _, _)
LevelFromUncapped(flips, i, level) ==
    IF i > NOTE_SKIP_LIST_LEVELS THEN [level |-> level, draws |-> i - 1]
    ELSE IF flips[i] THEN [level |-> level, draws |-> i]
    ELSE LevelFromUncapped(flips, i + 1, level + 1)

\* the loop of get_skip_list_level from its i-th iteration on; flips[i] is
\* the i-th output of rng.gen::<bool>(), draws counts the outputs consumed
RECURSIVE LevelFrom(_, _, _)
LevelFrom(flips, i, level) ==
    IF i > NOTE_SKIP_LIST_LEVELS - 1 THEN [level |-> level, draws |-> i - 1]
    ELSE IF flips[i] THEN [level |-> level, draws |-> i]
    ELSE LevelFrom(flips, i + 1, level + 1)

get_skip_list_level(flips) == LevelFrom(flips, 1, 0).level

\* the next outputs of the generator, one more than the loop may consume
Flips == [1..NOTE_SKIP_LIST_LEVELS -> BOOLEAN]

\* the levels get_skip_list_level returns over all outcomes of the generator
DrawnLevels == {get_skip_list_level(flips) : flips \in Flips}

\* (*key.val_slot_key) for a node key
NoteOf(nds, nts, key) == nts[nds[key].val_slot_key]

\* contains_beat with the bug of excluding the two endpoints
contains_beat_open(nds, nts, key, beat) ==
    LET note == NoteOf(nds, nts, key)
    IN  note.start_beat < beat /\ note.end_beat > beat

contains_beat(nds, nts, key, beat) ==
    LET note == NoteOf(nds, nts, key)
    IN  note.start_beat <= beat /\ note.end_beat >= beat

\* SearchLoop with the bug of recording a taken shortcut as the predecessor
\* of its own level only, not of the levels below it
RECURSIVE SearchLoopOneLevel(_, _, _, _, _, _)
SearchLoopOneLevel(nds, nts, target_val, self_key, levels, link_level) ==
    LET shortcut == nds[self_key].links[link_level]
    IN  IF shortcut # NoKey /\ NoteOf(nds, nts, shortcut).end_beat < target_val
        THEN LET r == SearchLoopOneLevel(nds, nts, target_val, shortcut,
                        [levels EXCEPT ![link_level] = shortcut],
                        NOTE_SKIP_LIST_LEVELS - 1)
             IN  [levels |-> r.levels, calls |-> <<shortcut>> \o r.calls]
        ELSE LET levels2 == IF shortcut # NoKey
                            THEN [levels EXCEPT ![link_level] = self_key]
                            ELSE levels
             IN  IF link_level = 0 THEN [levels |-> levels2, calls |-> <<>>]
                 ELSE SearchLoopOneLevel(nds, nts, target_val, self_key, levels2, link_level - 1)

\* SearchLoop with the bug of recording a taken shortcut for the levels below
\* link_level only (levels[0..link_level] for levels[0..=link_level])
RECURSIVE SearchLoopExclusive(_, _, _, _, _, _)
SearchLoopExclusive(nds, nts, target_val, self_key, levels, link_level) ==
    LET shortcut == nds[self_key].links[link_level]
    IN  IF shortcut # NoKey /\ NoteOf(nds, nts, shortcut).end_beat < target_val
        THEN LET r == SearchLoopExclusive(nds, nts, target_val, shortcut,
                        [l \in Levels |-> IF l < link_level THEN shortcut ELSE levels[l]],
                        NOTE_SKIP_LIST_LEVELS - 1)
             IN  [levels |-> r.levels, calls |-> <<shortcut>> \o r.calls]
        ELSE LET levels2 == IF shortcut # NoKey
                            THEN [levels EXCEPT ![link_level] = self_key]
                            ELSE levels
             IN  IF link_level = 0 THEN [levels |-> levels2, calls |-> <<>>]
                 ELSE SearchLoopExclusive(nds, nts, target_val, self_key, levels2, link_level - 1)

\* SearchLoop with the bug of also taking a shortcut whose end equals the
\* target
RECURSIVE SearchLoopInclusive(_, _, _, _, _, _)
SearchLoopInclusive(nds, nts, target_val, self_key, levels, link_level) ==
    LET shortcut == nds[self_key].links[link_level]
    IN  IF shortcut # NoKey /\ NoteOf(nds, nts, shortcut).end_beat <= target_val
        THEN LET r == SearchLoopInclusive(nds, nts, target_val, shortcut,
                        [l \in Levels |-> IF l <= link_level THEN shortcut ELSE levels[l]],
                        NOTE_SKIP_LIST_LEVELS - 1)
             IN  [levels |-> r.levels, calls |-> <<shortcut>> \o r.calls]
        ELSE LET levels2 == IF shortcut # NoKey
                            THEN [levels EXCEPT ![link_level] = self_key]
                            ELSE levels
             IN  IF link_level = 0 THEN [levels |-> levels2, calls |-> <<>>]
                 ELSE SearchLoopInclusive(nds, nts, target_val, self_key, levels2, link_level - 1)

\* the loop of NoteSkipListNode::search on the node self_key from link_level
\* down: the predecessors recorded, and the nodes search was then invoked on
RECURSIVE SearchLoop(_, _, _, _, _, _)
SearchLoop(nds, nts, target_val, self_key, levels, link_level) ==
    LET shortcut == nds[self_key].links[link_level]
    IN  IF shortcut # NoKey /\ NoteOf(nds, nts, shortcut).end_beat < target_val
        THEN LET r == SearchLoop(nds, nts, target_val, shortcut,
                        [l \in Levels |-> IF l <= link_level THEN shortcut ELSE levels[l]],
                        NOTE_SKIP_LIST_LEVELS - 1)
             IN  [levels |-> r.levels, calls |-> <<shortcut>> \o r.calls]
        ELSE LET levels2 == IF shortcut # NoKey
                            THEN [levels EXCEPT ![link_level] = self_key]
                            ELSE levels
             IN  IF link_level = 0 THEN [levels |-> levels2, calls |-> <<>>]
                 ELSE SearchLoop(nds, nts, target_val, self_key, levels2, link_level - 1)

\* NoteSkipListNode::search, entered at link_level = NOTE_SKIP_LIST_LEVELS - 1:
\* the levels array afterwards, and the start node of every invocation
search(nds, nts, target_val, self_key, levels) ==
    LET r == SearchLoop(nds, nts, target_val, self_key, levels,
                        NOTE_SKIP_LIST_LEVELS - 1)
    IN  [levels |-> r.levels, calls |-> <<self_key>> \o r.calls]

\* NoteSkipListNodeIterator::next, applied until it returns None or `fuel`
\* nodes were yielded: the keys of the nodes visited from a start key.
RECURSIVE IterFrom(_, _, _)
IterFrom(nds, key, fuel) ==
    IF key = NoKey \/ fuel = 0 THEN <<>>
    ELSE <<key>> \o IterFrom(nds, nds[key].links[0], fuel - 1)

\* NoteSkipList::iter_nodes(); a walk longer than the arena has looped
IterKeys(nds, head_key) == IterFrom(nds, head_key, Len(nds) + 1)

\* NoteSkipList::iter().collect()
Iter(nds, nts, head_key) ==
    LET ks == IterKeys(nds, head_key)
    IN  [i \in 1..Len(ks) |-> NoteOf(nds, nts, ks[i])]

\* --------------------------------------------------------------- insert

\* head replacement with the bug of not taking over the old head's links
\* above the drawn level
InsertBeforeHeadDropping(nds, head_key, new_node_key, level) ==
    LET head == nds[head_key]
        new_links == [l \in Levels |-> IF l <= level THEN head_key ELSE NoKey]
        old_links == [l \in Levels |-> IF l <= level THEN head.links[l] ELSE NoKey]
    IN  [nds EXCEPT ![new_node_key].links = new_links,
                    ![head_key].links = old_links]

\* head replacement with the bug of leaving the old head's upper links set
InsertBeforeHeadKeeping(nds, head_key, new_node_key, level) ==
    LET head == nds[head_key]
        new_links == [l \in Levels |-> IF l <= level THEN head_key ELSE head.links[l]]
    IN  [nds EXCEPT ![new_node_key].links = new_links]

\* head replacement branch of NoteSkipList::insert
InsertBeforeHead(nds, head_key, new_node_key, level) ==
    LET head == nds[head_key]
        new_links == [l \in Levels |-> IF l <= level THEN head_key ELSE head.links[l]]
        old_links == [l \in Levels |-> IF l <= level THEN head.links[l] ELSE NoKey]
    IN  [nds EXCEPT ![new_node_key].links = new_links,
                    ![head_key].links = old_links]

\* Splice with the bug of never linking the predecessor to the new node
RECURSIVE SpliceUnlinked(_, _, _, _, _)
SpliceUnlinked(nds, preceeding_links, new_node_key, i, level) ==
    IF i > level THEN nds
    ELSE LET p == preceeding_links[i]
             n1 == [nds EXCEPT ![new_node_key].links[i] = nds[p].links[i]]
         IN  SpliceUnlinked(n1, preceeding_links, new_node_key, i + 1, level)

\* Splice with the bug of running over every level, not 0..=level
RECURSIVE SpliceAllLevels(_, _, _, _, _)
SpliceAllLevels(nds, preceeding_links, new_node_key, i, level) ==
    IF i > NOTE_SKIP_LIST_LEVELS - 1 THEN nds
    ELSE LET p == preceeding_links[i]
             n1 == [nds EXCEPT ![new_node_key].links[i] = nds[p].links[i]]
             n2 == [n1 EXCEPT ![p].links[i] = new_node_key]
         IN  SpliceAllLevels(n2, preceeding_links, new_node_key, i + 1, level)

\* Splice with the bug of assigning the two links in the wrong order
RECURSIVE SpliceSwapped(_, _, _, _, _)
SpliceSwapped(nds, preceeding_links, new_node_key, i, level) ==
    IF i > level THEN nds
    ELSE LET p == preceeding_links[i]
             n1 == [nds EXCEPT ![p].links[i] = new_node_key]
             n2 == [n1 EXCEPT ![new_node_key].links[i] = n1[p].links[i]]
         IN  SpliceSwapped(n2, preceeding_links, new_node_key, i + 1, level)

\* Splice with the bug of linking the new node at its top level only
SpliceTopOnly(nds, preceeding_links, new_node_key, i, level) ==
    LET p == preceeding_links[level]
        n1 == [nds EXCEPT ![new_node_key].links[level] = nds[p].links[level]]
    IN  [n1 EXCEPT ![p].links[level] = new_node_key]

\* splice loop of NoteSkipList::insert: for i in 0..=level
RECURSIVE Splice(_, _, _, _, _)
Splice(nds, preceeding_links, new_node_key, i, level) ==
    IF i > level THEN nds
    ELSE LET p == preceeding_links[i]
             n1 == [nds EXCEPT ![new_node_key].links[i] = nds[p].links[i]]
             n2 == [n1 EXCEPT ![p].links[i] = new_node_key]
         IN  Splice(n2, preceeding_links, new_node_key, i + 1, level)

\* SkipListInsert with the bug of comparing the head's start, not its end,
\* with the new note's start
SkipListInsertByStart(nds, nts, head_key, note, level) ==
    LET nts1 == Append(nts, note)
        new_node == [val_slot_key |-> Len(nts) + 1, links |-> blank_shortcuts]
        new_node_key == Len(nds) + 1
        nds1 == Append(nds, new_node)
    IN  IF head_key = NoKey
        THEN [nodes |-> nds1, notes |-> nts1, head_key |-> new_node_key,
              calls |-> <<>>]
        ELSE IF NoteOf(nds1, nts1, head_key).start_beat > note.start_beat
        THEN [nodes |-> InsertBeforeHead(nds1, head_key, new_node_key, level),
              notes |-> nts1, head_key |-> new_node_key, calls |-> <<>>]
        ELSE LET found == search(nds1, nts1, note.start_beat, head_key,
                                 [l \in Levels |-> head_key])
             IN  [nodes |-> Splice(nds1, found.levels, new_node_key, 0, level),
                  notes |-> nts1, head_key |-> head_key, calls |-> found.calls]

\* NoteSkipList::insert on the list whose head is head_key; the result is
\* the node arena, the note arena and the list's head afterwards, and the
\* start nodes of the invocations of search it made.
SkipListInsert(nds, nts, head_key, note, level) ==
    LET nts1 == Append(nts, note)
        new_node == [val_slot_key |-> Len(nts) + 1, links |-> blank_shortcuts]
        new_node_key == Len(nds) + 1
        nds1 == Append(nds, new_node)
    IN  IF head_key = NoKey
        THEN [nodes |-> nds1, notes |-> nts1, head_key |-> new_node_key,
              calls |-> <<>>]
        ELSE IF NoteOf(nds1, nts1, head_key).end_beat > note.start_beat
        THEN [nodes |-> InsertBeforeHead(nds1, head_key, new_node_key, level),
              notes |-> nts1, head_key |-> new_node_key, calls |-> <<>>]
        ELSE LET found == search(nds1, nts1, note.start_beat, head_key,
                                 [l \in Levels |-> head_key])
             IN  [nodes |-> Splice(nds1, found.levels, new_node_key, 0, level),
                  notes |-> nts1, head_key |-> head_key, calls |-> found.calls]

\* ----------------------------------------------------------- get_bounds

\* bounds_after with the bug of not testing whether the following node
\* contains the beat
bounds_after_unchecked(nds, nts, preceeding_node, beat) ==
    LET following_node == nds[preceeding_node].links[0]
    IN  IF following_node = NoKey
        THEN SomeV(<<NoteOf(nds, nts, preceeding_node).end_beat, NoneV>>)
        ELSE SomeV(<<NoteOf(nds, nts, preceeding_node).end_beat,
                     SomeV(NoteOf(nds, nts, following_node).start_beat)>>)

\* the part of get_bounds after the search: the gap between the level-0
\* predecessor and the node that follows it
bounds_after(nds, nts, preceeding_node, beat) ==
    LET following_node == nds[preceeding_node].links[0]
    IN  IF following_node = NoKey
        THEN SomeV(<<NoteOf(nds, nts, preceeding_node).end_beat, NoneV>>)
        ELSE IF contains_beat(nds, nts, following_node, beat) THEN NoneV
        ELSE SomeV(<<NoteOf(nds, nts, preceeding_node).end_beat,
                     SomeV(NoteOf(nds, nts, following_node).start_beat)>>)

\* get_bounds with the bug of bounding below by the head instead of by the
\* node the search found
get_bounds_from_head(nds, nts, lns, line_ix, beat) ==
    LET head == lns[line_ix]
    IN  IF head = NoKey THEN SomeV(<<0, NoneV>>)
        ELSE IF contains_beat(nds, nts, head, beat) THEN NoneV
        ELSE IF NoteOf(nds, nts, head).start_beat > beat
        THEN SomeV(<<0, SomeV(NoteOf(nds, nts, head).start_beat)>>)
        ELSE bounds_after(nds, nts, head, beat)

\* get_bounds with the bug of answering None on a line without a head
get_bounds_empty_none(nds, nts, lns, line_ix, beat) ==
    LET head == lns[line_ix]
    IN  IF head = NoKey THEN NoneV
        ELSE IF contains_beat(nds, nts, head, beat) THEN NoneV
        ELSE IF NoteOf(nds, nts, head).start_beat > beat
        THEN SomeV(<<0, SomeV(NoteOf(nds, nts, head).start_beat)>>)
        ELSE bounds_after(nds, nts,
                          search(nds, nts, beat, head, [l \in Levels |-> head]).levels[0],
                          beat)

get_bounds(nds, nts, lns, line_ix, beat) ==
    LET head == lns[line_ix]
    IN  IF head = NoKey THEN SomeV(<<0, NoneV>>)
        ELSE IF contains_beat(nds, nts, head, beat) THEN NoneV
        ELSE IF NoteOf(nds, nts, head).start_beat > beat
        THEN SomeV(<<0, SomeV(NoteOf(nds, nts, head).start_beat)>>)
        ELSE bounds_after(nds, nts,
                          search(nds, nts, beat, head, [l \in Levels |-> head]).levels[0],
                          beat)

\* the start nodes of the invocations of search that get_bounds makes
get_bounds_calls(nds, nts, lns, line_ix, beat) ==
    LET head == lns[line_ix]
    IN  IF head = NoKey THEN <<>>
        ELSE IF contains_beat(nds, nts, head, beat) THEN <<>>
        ELSE IF NoteOf(nds, nts, head).start_beat > beat THEN <<>>
        ELSE search(nds, nts, beat, head, [l \in Levels |-> head]).calls

\* ------------------------------------------------------- debug renderer

\* init_node_dbg_ptrs: every cursor is set to the head
init_node_dbg_ptrs(head_key) == [l \in Levels |-> head_key]

\* the debug_assert_eq! at the top of NoteSkipListNode::fmt, over all levels
\* (note boxes are compared by value)
NodeAssertHolds(nds, nts, key, ptrs) ==
    \A level \in Levels :
        LET next_node_for_level == nds[key].links[level]
        IN  (/\ next_node_for_level # NoKey
             /\ ptrs[level] # NoKey
             /\ NoteOf(nds, nts, key) # NoteOf(nds, nts, ptrs[level]))
            => NoteOf(nds, nts, ptrs[level]) = NoteOf(nds, nts, next_node_for_level)

\* the node is the one the cursor of the level points to (note slot keys
\* are compared)
IsCursor(nds, key, ptrs, level) ==
    ptrs[level] # NoKey /\ nds[ptrs[level]].val_slot_key = nds[key].val_slot_key

\* the cursors after NoteSkipListNode::fmt of the node
NodePtrs(nds, key, ptrs) ==
    [level \in Levels |->
        IF IsCursor(nds, key, ptrs, level) THEN nds[key].links[level] ELSE ptrs[level]]

\* has_next_for_level with the bug of drawing an arrowhead whenever the node
\* has a link at the level
has_next_for_any_link(nds, key, ptrs, level) ==
    LET next_node == nds[key].links[0]
        link_opt == nds[key].links[level]
    IN  IF next_node = NoKey THEN TRUE
        ELSE IF link_opt # NoKey THEN TRUE
        ELSE ptrs[level] # NoKey /\ ptrs[level] = next_node

\* has_next_for_level in NoteSkipListNode::fmt
has_next_for_level(nds, key, ptrs, level) ==
    LET next_node == nds[key].links[0]
        link_opt == nds[key].links[level]
    IN  IF next_node = NoKey THEN TRUE
        ELSE IF link_opt # NoKey THEN next_node = link_opt
        ELSE ptrs[level] # NoKey /\ ptrs[level] = next_node

\* the (label, has_next) pair NoteSkipListNode::fmt computes for each level
NodeCells(nds, key, ptrs) ==
    [level \in Levels |->
        [label |-> IsCursor(nds, key, ptrs, level),
         has_next |-> has_next_for_level(nds, key, ptrs, level)]]

\* format!("{:?}", note): the characters of a note box's label, as in the
\* expected strings of the renderer's tests ("|1, 2|")
NoteLabel(note) ==
    <<"|", ToString(note.start_beat), ",", " ", ToString(note.end_beat), "|">>

\* n dashes
Dashes(n) == [i \in 1..n |-> "-"]

\* the lines NoteSkipListNode::fmt writes for a node from its cells with the
\* bug of leaving out .rev(): the lowest level comes first
NodeLinesUnreversed(nds, nts, key, cells) ==
    LET link_s == NoteLabel(NoteOf(nds, nts, key))
        longest_link_s == IF \E l \in Levels : cells[l].label THEN Len(link_s) ELSE 0
        Arrow(has_next) == IF has_next THEN <<">">> ELSE <<"-">>
        Line(l) ==
            IF cells[l].label
            THEN link_s \o Dashes(longest_link_s - Len(link_s) + 1) \o Arrow(cells[l].has_next)
            ELSE Dashes(longest_link_s + 1) \o Arrow(cells[l].has_next)
    IN  [i \in 1..NOTE_SKIP_LIST_LEVELS |-> Line(i - 1)]

\* the lines NoteSkipListNode::fmt writes for a node from its cells, one per
\* level, the highest level first (.rev()): the label or as many dashes,
\* one more dash, then the arrowhead or a dash
NodeLines(nds, nts, key, cells) ==
    LET link_s == NoteLabel(NoteOf(nds, nts, key))
        longest_link_s == IF \E l \in Levels : cells[l].label THEN Len(link_s) ELSE 0
        Arrow(has_next) == IF has_next THEN <<">">> ELSE <<"-">>
        Line(l) ==
            IF cells[l].label
            THEN link_s \o Dashes(longest_link_s - Len(link_s) + 1) \o Arrow(cells[l].has_next)
            ELSE Dashes(longest_link_s + 1) \o Arrow(cells[l].has_next)
    IN  [i \in 1..NOTE_SKIP_LIST_LEVELS |-> Line(NOTE_SKIP_LIST_LEVELS - i)]

\* node_debug_lines in NoteSkipList::fmt: the lines of every node
NodeDebugLines(nds, nts, keys, cells) ==
    [j \in 1..Len(cells) |-> NodeLines(nds, nts, keys[j], cells[j])]

\* the i-th lines of the nodes from the j-th on, one after the other
RECURSIVE RowFrom(_, _, _)
RowFrom(node_debug_lines, i, j) ==
    IF j > Len(node_debug_lines) THEN <<>>
    ELSE node_debug_lines[j][i] \o RowFrom(node_debug_lines, i, j + 1)

\* the rows of the string NoteSkipList::fmt writes (the string joins them
\* with newlines): each is the nodes' i-th lines followed by 'x'
SkipListRows(nds, nts, keys, cells) ==
    LET node_debug_lines == NodeDebugLines(nds, nts, keys, cells)
    IN  [i \in 1..NOTE_SKIP_LIST_LEVELS |-> RowFrom(node_debug_lines, i, 1) \o <<"x">>]

\* the loop of NoteSkipList::fmt over iter_nodes(): formats the nodes from
\* the i-th on; a failing debug assertion ends it at the node that fails
RECURSIVE FmtNodes(_, _, _, _, _, _)
FmtNodes(nds, nts, keys, i, ptrs, cells) ==
    IF i > Len(keys) THEN [ok |-> TRUE, ptrs |-> ptrs, cells |-> cells]
    ELSE IF ~NodeAssertHolds(nds, nts, keys[i], ptrs)
    THEN [ok |-> FALSE, ptrs |-> ptrs, cells |-> cells]
    ELSE FmtNodes(nds, nts, keys, i + 1, NodePtrs(nds, keys[i], ptrs),
                  Append(cells, NodeCells(nds, keys[i], ptrs)))

\* NoteSkipList::fmt with the bug of not resetting the cursors to the head
SkipListFmtNoReset(nds, nts, head_key, ptrs) ==
    FmtNodes(nds, nts, IterKeys(nds, head_key), 1, ptrs, <<>>)

\* NoteSkipList::fmt from the cursors ptrs
SkipListFmt(nds, nts, head_key, ptrs) ==
    FmtNodes(nds, nts, IterKeys(nds, head_key), 1,
             IF head_key # NoKey THEN init_node_dbg_ptrs(head_key) ELSE ptrs, <<>>)

\* ---------------------------------------------------------- state machine

\* NoteLines::new(NumLines) over freshly initialised arenas
Init ==
    /\ notes = <<>>
    /\ nodes = <<>>
    /\ lines = [i \in LineIxs |-> NoKey]
    /\ inserted = [i \in LineIxs |-> <<>>]
    /\ last = [op |-> "new"]
    /\ panicked = FALSE
    /\ debug_ptrs = blank_shortcuts

\* InsertInto with the bug of the lines sharing one head (every line takes
\* the head of the list that was inserted into)
InsertIntoShared(ixs) ==
    /\ ~panicked
    /\ Len(nodes) < MaxNodes
    /\ \E line_ix \in ixs, note \in NoteBoxes, level \in DrawnLevels :
         \E r \in {SkipListInsert(nodes, notes, lines[line_ix], note, level)} :
             /\ notes' = r.notes
             /\ nodes' = r.nodes
             /\ lines' = [j \in LineIxs |-> r.head_key]
             /\ inserted' = [inserted EXCEPT ![line_ix] = Append(@, note)]
             /\ last' = [op |-> "insert", line_ix |-> line_ix, note |-> note,
                         level |-> IF lines[line_ix] = NoKey THEN -1 ELSE level,
                         calls |-> r.calls]
    /\ UNCHANGED <<panicked, debug_ptrs>>

\* NoteLines::insert(line_ix, note) for a line among ixs
InsertInto(ixs) ==
    /\ ~panicked
    /\ Len(nodes) < MaxNodes
    /\ \E line_ix \in ixs, note \in NoteBoxes, level \in DrawnLevels :
         \E r \in {SkipListInsert(nodes, notes, lines[line_ix], note, level)} :
             /\ notes' = r.notes
             /\ nodes' = r.nodes
             /\ lines' = [lines EXCEPT ![line_ix] = r.head_key]
             /\ inserted' = [inserted EXCEPT ![line_ix] = Append(@, note)]
             /\ last' = [op |-> "insert", line_ix |-> line_ix, note |-> note,
                         level |-> IF lines[line_ix] = NoKey THEN -1 ELSE level,
                         calls |-> r.calls]
    /\ UNCHANGED <<panicked, debug_ptrs>>

Insert == InsertInto(LineIxs)

\* NoteLines::get_bounds(line_ix, beat) for a line among ixs
GetBoundsOf(ixs) ==
    /\ ~panicked
    /\ \E line_ix \in ixs, beat \in Beats :
         last' = [op |-> "get_bounds", line_ix |-> line_ix, beat |-> beat,
                  result |-> get_bounds(nodes, notes, lines, line_ix, beat),
                  calls |-> get_bounds_calls(nodes, notes, lines, line_ix, beat)]
    /\ UNCHANGED <<notes, nodes, lines, inserted, panicked, debug_ptrs>>

GetBounds == GetBoundsOf(LineIxs)

Next == Insert \/ GetBounds

\* the multi-line index: inserts and gap queries on every line
Spec == Init /\ [][Next]_vars

\* the multi-line index under inserts alone (a gap query changes neither the
\* arenas nor the heads, so these are the insert steps of Spec)
SpecInsert == Init /\ [][Insert]_vars

\* NoteSkipList::insert on the list of line 0
ListInsert == InsertInto({0})

\* ListRemove with the bug of returning normally without doing anything
ListRemoveSilent ==
    /\ ~panicked
    /\ \E beat \in Beats :
         last' = [op |-> "remove", line_ix |-> 0, beat |-> beat]
    /\ UNCHANGED <<notes, nodes, lines, inserted, panicked, debug_ptrs>>

\* NoteSkipList::remove(beat) on the list of line 0: unimplemented!() panics
ListRemove ==
    /\ ~panicked
    /\ \E beat \in Beats :
         last' = [op |-> "remove", line_ix |-> 0, beat |-> beat]
    /\ panicked' = TRUE
    /\ UNCHANGED <<notes, nodes, lines, inserted, debug_ptrs>>

\* the gap query on the list of line 0
ListGetBounds == GetBoundsOf({0})

NextList == ListInsert \/ ListGetBounds \/ ListRemove

\* one skip list: inserts, gap queries and removes on the list of line 0
SpecList == Init /\ [][NextList]_vars

\* ListIterate with the bug of an iterator that unlinks what it yields
ListIterateDraining ==
    /\ ~panicked
    /\ last' = [op |-> "iter", line_ix |-> 0, result |-> Iter(nodes, notes, lines[0])]
    /\ lines' = [lines EXCEPT ![0] = NoKey]
    /\ UNCHANGED <<notes, nodes, inserted, panicked, debug_ptrs>>

\* NoteSkipList::iter().collect() on the list of line 0
ListIterate ==
    /\ ~panicked
    /\ last' = [op |-> "iter", line_ix |-> 0, result |-> Iter(nodes, notes, lines[0])]
    /\ UNCHANGED <<notes, nodes, lines, inserted, panicked, debug_ptrs>>

\* format!("{:?}", skip_list) on the list of line 0, in a build with debug
\* assertions: a failing assertion panics
ListRender ==
    /\ ~panicked
    /\ \E r \in {SkipListFmt(nodes, notes, lines[0], debug_ptrs)} :
           /\ debug_ptrs' = r.ptrs
           /\ panicked' = ~r.ok
           /\ last' = [op |-> "render", line_ix |-> 0, ok |-> r.ok, cells |-> r.cells,
                        cursors |-> debug_ptrs,
                        rows |-> IF r.ok
                                 THEN SkipListRows(nodes, notes,
                                                   IterKeys(nodes, lines[0]), r.cells)
                                 ELSE <<>>]
    /\ UNCHANGED <<notes, nodes, lines, inserted>>

\* format!("{:?}", node) of one node after init_node_dbg_ptrs(&node_key), as
\* the test of the node renderer does: the cursors are left at the node's links
ListRenderNode ==
    /\ ~panicked
    /\ \E node_key \in 1..Len(nodes) :
           LET ptrs == init_node_dbg_ptrs(node_key)
           IN  /\ debug_ptrs' = NodePtrs(nodes, node_key, ptrs)
               /\ panicked' = ~NodeAssertHolds(nodes, notes, node_key, ptrs)
               /\ last' = [op |-> "render_node", line_ix |-> 0, node_key |-> node_key,
                           lines |-> NodeLines(nodes, notes, node_key,
                                               NodeCells(nodes, node_key, ptrs))]
    /\ UNCHANGED <<notes, nodes, lines, inserted>>

NextRender == ListInsert \/ ListRender \/ ListRenderNode

\* one skip list under inserts, renderings of the list and of single nodes
SpecRender == Init /\ [][NextRender]_vars

\* head.search(target_val, head_key, levels) on the list of line 0 with
\* levels pre-filled with the head, as insert and get_bounds call it; the
\* callers keep the condition of the debug assertion at the top of search
ListSearch ==
    /\ ~panicked
    /\ lines[0] # NoKey
    /\ \E target_val \in Beats :
           /\ NoteOf(nodes, notes, lines[0]).end_beat <= target_val
           /\ LET r == search(nodes, notes, target_val, lines[0],
                              [l \in Levels |-> lines[0]])
              IN  last' = [op |-> "search", line_ix |-> 0, target_val |-> target_val,
                           levels |-> r.levels, calls |-> r.calls]
    /\ UNCHANGED <<notes, nodes, lines, inserted, panicked, debug_ptrs>>

NextSearch == ListInsert \/ ListSearch

\* one skip list under inserts and searches from its head
SpecSearch == Init /\ [][NextSearch]_vars

\* get_skip_list_level on the next outputs of the generator
DrawLevel ==
    /\ ~panicked
    /\ \E flips \in Flips :
           LET r == LevelFrom(flips, 1, 0)
           IN  last' = [op |-> "level", flips |-> flips,
                        level |-> r.level, draws |-> r.draws]
    /\ UNCHANGED <<notes, nodes, lines, inserted, panicked, debug_ptrs>>

NextLevel == ListInsert \/ DrawLevel

SpecLevel == Init /\ [][NextLevel]_vars

NextRead == ListInsert \/ ListGetBounds \/ ListIterate \/ ListRender

\* one list under inserts and its read-only operations
SpecRead == Init /\ [][NextRead]_vars

\* line indexes at and past the end of NoteLines::lines
BadLineIxs == NumLines..(NumLines + 1)

\* InsertOutOfRange with the bug of allocating the note box before the line
\* is indexed
InsertOutOfRangeAllocating ==
    /\ ~panicked
    /\ Len(nodes) < MaxNodes
    /\ \E line_ix \in BadLineIxs, note \in NoteBoxes :
         /\ last' = [op |-> "insert", line_ix |-> line_ix, note |-> note, level |-> -1]
         /\ notes' = Append(notes, note)
    /\ panicked' = TRUE
    /\ UNCHANGED <<nodes, lines, inserted, debug_ptrs>>

\* NoteLines::insert(line_ix, note) with line_ix >= lines.len(): indexing
\* self.lines[line_ix] panics before NoteSkipList::insert is entered
InsertOutOfRange ==
    /\ ~panicked
    /\ \E line_ix \in BadLineIxs, note \in NoteBoxes :
         last' = [op |-> "insert", line_ix |-> line_ix, note |-> note, level |-> -1]
    /\ panicked' = TRUE
    /\ UNCHANGED <<notes, nodes, lines, inserted, debug_ptrs>>

\* NoteLines::get_bounds(line_ix, beat) with line_ix >= lines.len(): the
\* first statement indexes self.lines[line_ix] and panics
GetBoundsOutOfRange ==
    /\ ~panicked
    /\ \E line_ix \in BadLineIxs, beat \in Beats :
         last' = [op |-> "get_bounds", line_ix |-> line_ix, beat |-> beat]
    /\ panicked' = TRUE
    /\ UNCHANGED <<notes, nodes, lines, inserted, debug_ptrs>>

NextIndex == ListInsert \/ InsertOutOfRange \/ GetBoundsOutOfRange

\* one list under inserts, with calls whose line index is out of range
SpecIndex == Init /\ [][NextIndex]_vars

\* ------------------------------------------------------------ properties

\* notes.sort(): the reference sort of a sequence of note boxes
RECURSIVE SortInsert(_, _)
SortInsert(sorted, n) ==
    IF sorted = <<>> THEN <<n>>
    ELSE IF NoteLess(n, Head(sorted)) THEN <<n>> \o sorted
    ELSE <<Head(sorted)>> \o SortInsert(Tail(sorted), n)

RECURSIVE SortNotes(_)
SortNotes(seq) ==
    IF seq = <<>> THEN <<>>
    ELSE SortInsert(SortNotes(SubSeq(seq, 1, Len(seq) - 1)), seq[Len(seq)])

StrictlyIncreasing(seq) ==
    \A i \in 1..(Len(seq) - 1) : NoteLess(seq[i], seq[i + 1])

\* two note boxes do not overlap, but may share one endpoint
Apart(a, b) == a.end_beat <= b.start_beat \/ b.end_beat <= a.start_beat

NonOverlapping(seq) ==
    \A i \in 1..Len(seq), j \in 1..Len(seq) : i < j => Apart(seq[i], seq[j])

StrictlySeparated(seq) ==
    \A i \in 1..Len(seq), j \in 1..Len(seq) :
        i < j => (seq[i].end_beat < seq[j].start_beat \/ seq[j].end_beat < seq[i].start_beat)

\* the walk along links[0] from the head of line i ends in an empty link
ChainTerminates(i) == Len(IterKeys(nodes, lines[i])) <= Len(nodes)

LineNotes(i) == Iter(nodes, notes, lines[i])

\* C1: whatever was inserted into a list, iterating it yields the inserted
\* intervals in the order of a reference sort of the inserted multiset.
C1_IterationIsReferenceSort ==
    \A i \in LineIxs : LineNotes(i) = SortNotes(inserted[i])

\* C2: when the inserted intervals all have start < end and are pairwise
\* non-overlapping (sharing an endpoint is allowed), the level-0 chain of the
\* list is strictly increasing by (start, end) and ends in an empty link.
C2_TouchingChainIncreasing ==
    \A i \in LineIxs :
        (/\ \A k \in 1..Len(inserted[i]) :
               inserted[i][k].start_beat < inserted[i][k].end_beat
         /\ NonOverlapping(inserted[i]))
        => (ChainTerminates(i) /\ StrictlyIncreasing(LineNotes(i)))

\* C3: when the inserted intervals are pairwise strictly separated, iteration
\* after each insert yields the intervals inserted so far in increasing order.
C3_SeparatedIterationSorted ==
    \A i \in LineIxs :
        StrictlySeparated(inserted[i])
        => (/\ LineNotes(i) = SortNotes(inserted[i])
            /\ StrictlyIncreasing(LineNotes(i)))

\* a three-node list of strictly separated intervals, the last of which was
\* inserted out of order through the search path with a shortcut level
C3_Witness ==
    /\ Len(inserted[0]) = 3
    /\ StrictlySeparated(inserted[0])
    /\ last.op = "insert" /\ last.level >= 1
    /\ lines[0] = 1
    /\ nodes[1].links[1] = 3
    /\ nodes[3].links[0] = 2
    /\ nodes[3].links[1] = 2
    /\ LineNotes(0) = SortNotes(inserted[0])

\* C8: insert always inserts: the level-0 chain of a list is acyclic and
\* iteration ends after yielding exactly the inserted multiset, one node per
\* insert call, whatever intervals (overlapping, duplicate) were inserted.
C8_InsertAlwaysInserts ==
    \A i \in LineIxs :
        LET ks == IterKeys(nodes, lines[i])
        IN  /\ ChainTerminates(i)
            /\ \A a \in 1..Len(ks), b \in 1..Len(ks) : a # b => ks[a] # ks[b]
            /\ Len(ks) = Len(inserted[i])
            /\ SortNotes(LineNotes(i)) = SortNotes(inserted[i])

\* three inserts with a duplicate and an overlapping interval, iterated out of
\* reference order, after a head replacement with a drawn level of 2
C8_Witness ==
    /\ Len(inserted[0]) = 3
    /\ inserted[0][1] = inserted[0][2]
    /\ ~Apart(inserted[0][1], inserted[0][3])
    /\ inserted[0][1] # inserted[0][3]
    /\ last.op = "insert" /\ last.level = 2
    /\ LineNotes(0) # SortNotes(inserted[0])
    /\ Len(LineNotes(0)) = 3

BoundsOf(i, beat) == get_bounds(nodes, notes, lines, i, beat)

\* the level-0 chain of line i is strictly increasing and its intervals are
\* pairwise non-overlapping
WellOrdered(i) ==
    /\ ChainTerminates(i)
    /\ StrictlyIncreasing(LineNotes(i))
    /\ NonOverlapping(LineNotes(i))

Contained(i, beat) ==
    \E k \in 1..Len(LineNotes(i)) :
        LineNotes(i)[k].start_beat <= beat /\ beat <= LineNotes(i)[k].end_beat

SetMax(S) == CHOOSE x \in S : \A y \in S : y <= x
SetMin(S) == CHOOSE x \in S : \A y \in S : x <= y

EndsBefore(i, beat) ==
    {LineNotes(i)[k].end_beat : k \in {k \in 1..Len(LineNotes(i)) : LineNotes(i)[k].end_beat < beat}}

StartsAfter(i, beat) ==
    {LineNotes(i)[k].start_beat : k \in {k \in 1..Len(LineNotes(i)) : LineNotes(i)[k].start_beat > beat}}

\* C4: on a line whose chain is strictly increasing and whose intervals do
\* not overlap, get_bounds returns None exactly for the points that lie
\* inside an interval of the line.
C4_NoneIffContained ==
    \A i \in LineIxs : WellOrdered(i) =>
        \A beat \in Beats : (BoundsOf(i, beat) = NoneV) <=> Contained(i, beat)

\* get_bounds answered None for a point inside the last of three intervals
C4_Witness ==
    /\ last.op = "get_bounds"
    /\ last.result = NoneV
    /\ WellOrdered(last.line_ix)
    /\ Len(LineNotes(last.line_ix)) = 3
    /\ ~contains_beat(nodes, notes, lines[last.line_ix], last.beat)
    /\ LineNotes(last.line_ix)[3].start_beat <= last.beat

\* C5: on such a line, a result Some((lower, upper)) has lower = the largest
\* end among the intervals before the point (0 without one) and upper = the
\* smallest start among the intervals after the point (None without one).
C5_BoundsAreNearestNeighbours ==
    \A i \in LineIxs : WellOrdered(i) =>
        \A beat \in Beats :
            BoundsOf(i, beat) # NoneV =>
                LET b == BoundsOf(i, beat)[1]
                IN  /\ b[1] = IF EndsBefore(i, beat) = {} THEN 0
                                ELSE SetMax(EndsBefore(i, beat))
                    /\ b[2] = IF StartsAfter(i, beat) = {} THEN NoneV
                                ELSE SomeV(SetMin(StartsAfter(i, beat)))

\* get_bounds answered a gap between the second and third of three intervals
C5_Witness ==
    /\ last.op = "get_bounds"
    /\ WellOrdered(last.line_ix)
    /\ Len(LineNotes(last.line_ix)) = 3
    /\ last.result # NoneV
    /\ last.result[1][1] = LineNotes(last.line_ix)[2].end_beat
    /\ last.result[1][1] > 0
    /\ last.result[1][2] = SomeV(LineNotes(last.line_ix)[3].start_beat)

\* C6: on a line holding exactly one interval [a,b], get_bounds returns None
\* for a <= p <= b, (0, Some(a)) for p < a and (b, None) for p > b.
C6_SingleInterval ==
    \A i \in LineIxs : Len(inserted[i]) = 1 =>
        LET a == inserted[i][1].start_beat
            b == inserted[i][1].end_beat
        IN  \A p \in Beats :
                /\ (a <= p /\ p <= b) => BoundsOf(i, p) = NoneV
                /\ p < a => BoundsOf(i, p) = SomeV(<<0, SomeV(a)>>)
                /\ p > b => BoundsOf(i, p) = SomeV(<<b, NoneV>>)

\* get_bounds answered for a point after the only interval of a line
C6_Witness ==
    /\ last.op = "get_bounds"
    /\ Len(inserted[last.line_ix]) = 1
    /\ last.beat > inserted[last.line_ix][1].end_beat
    /\ inserted[last.line_ix][1].end_beat > 0
    /\ last.result = SomeV(<<inserted[last.line_ix][1].end_beat, NoneV>>)

\* C7: on a line on which nothing was inserted, get_bounds returns (0, None)
\* for every point, whatever was inserted on the other lines.
C7_EmptyLine ==
    \A i \in LineIxs : inserted[i] = <<>> =>
        \A p \in Beats : BoundsOf(i, p) = SomeV(<<0, NoneV>>)

\* get_bounds answered on an empty line while another line holds three nodes
C7_Witness ==
    /\ last.op = "get_bounds"
    /\ inserted[last.line_ix] = <<>>
    /\ last.result = SomeV(<<0, NoneV>>)
    /\ \E j \in LineIxs : Len(inserted[j]) = 3

\* ---------------------------------------------------- line independence

\* the keys reachable from a set of keys through links of any level
RECURSIVE Closure(_, _)
Closure(nds, S) ==
    LET T == S \cup ({nds[k].links[l] : k \in S, l \in Levels} \ {NoKey})
    IN  IF T = S THEN S ELSE Closure(nds, T)

ReachFrom(nds, head_key) ==
    IF head_key = NoKey THEN {} ELSE Closure(nds, {head_key})

LinesDisjoint ==
    \A i \in LineIxs, j \in LineIxs :
        i # j => ReachFrom(nodes, lines[i]) \cap ReachFrom(nodes, lines[j]) = {}

InsertFrame ==
    last'.op = "insert" /\ Len(nodes') > Len(nodes) =>
        \A j \in LineIxs : j # last'.line_ix =>
            /\ lines'[j] = lines[j]
            /\ Iter(nodes', notes', lines'[j]) = Iter(nodes, notes, lines[j])
            /\ \A p \in Beats :
                   get_bounds(nodes', notes', lines', j, p)
                       = get_bounds(nodes, notes, lines, j, p)

\* C9: lines are independent although they share the arenas: insert(i, _)
\* leaves the head, the iteration sequence and every get_bounds result of
\* each other line unchanged, and no node is reachable from two heads.
\* (no line has a head initially, so disjointness after every step is
\* disjointness in every reachable state)
C9_LinesIndependent == [][LinesDisjoint' /\ InsertFrame]_vars

\* an insert into line 1 through the search path while line 0 holds a node
C9_Witness ==
    /\ last.op = "insert"
    /\ last.line_ix = 1
    /\ last.level >= 1
    /\ lines[1] # NoKey /\ nodes[lines[1]].links[1] # NoKey
    /\ lines[0] # NoKey
    /\ Len(nodes) = 3

\* ------------------------------------------------------ indexing errors

\* C11: insert and get_bounds with line_ix >= line_count fail with a fatal
\* indexing error before any state change: nothing is allocated in either
\* arena and no head or link changes.
C11_OutOfRangeIsFatal ==
    [][(~panicked /\ last'.op \in {"insert", "get_bounds"} /\ last'.line_ix >= NumLines)
       => (/\ panicked'
           /\ notes' = notes
           /\ nodes' = nodes
           /\ lines' = lines)]_vars

\* insert was called with the first out-of-range index on a two-node list
C11_Witness ==
    /\ panicked
    /\ last.op = "insert"
    /\ last.line_ix = NumLines
    /\ Len(nodes) = 2
    /\ Len(notes) = 2

\* --------------------------------------------------- read-only operations

ReadOnlyOps == {"iter", "get_bounds", "render"}

\* C12: iteration, get_bounds (with its search) and debug rendering leave
\* every head, every node's payload handle and links and both arenas
\* unchanged; an iteration yields what the list held before it, so two
\* iterations of a line with only read-only operations in between agree.
C12_ReadOnlyOperations ==
    [][(~panicked /\ last'.op \in ReadOnlyOps)
       => (/\ lines' = lines
           /\ nodes' = nodes
           /\ notes' = notes
           /\ \A i \in LineIxs :
                  Iter(nodes', notes', lines'[i]) = Iter(nodes, notes, lines[i])
           /\ last'.op = "iter"
                  => last'.result = Iter(nodes', notes', lines'[last'.line_ix]))]_vars

\* a three-node list whose head has a level-2 shortcut was iterated
C12_Witness ==
    /\ last.op = "iter"
    /\ Len(last.result) = 3
    /\ last.result = LineNotes(0)
    /\ debug_ptrs = blank_shortcuts
    /\ nodes[lines[0]].links[2] # NoKey

\* --------------------------------------------------- the level generator

\* index of the first "stop" output, or one past the end when there is none
FirstStop(flips) ==
    IF \E i \in DOMAIN flips : flips[i]
    THEN SetMin({i \in DOMAIN flips : flips[i]})
    ELSE Len(flips) + 1

\* C13: the level is in [0, L-1] and equals the number of "continue"
\* outputs before the first "stop", capped at L-1; at most L-1 outputs are
\* consumed and none after the first stop.
C13_LevelInRange ==
    last.op = "level" =>
        LET continues == FirstStop(last.flips) - 1
        IN  /\ last.level \in 0..(NOTE_SKIP_LIST_LEVELS - 1)
            /\ last.level = IF continues < NOTE_SKIP_LIST_LEVELS - 1
                            THEN continues ELSE NOTE_SKIP_LIST_LEVELS - 1
            /\ last.draws <= NOTE_SKIP_LIST_LEVELS - 1
            /\ last.draws <= FirstStop(last.flips)

\* the generator never says stop: the cap decides the level
C13_Witness ==
    /\ last.op = "level"
    /\ \A i \in DOMAIN last.flips : ~last.flips[i]
    /\ last.level = NOTE_SKIP_LIST_LEVELS - 1
    /\ last.draws = NOTE_SKIP_LIST_LEVELS - 1

\* --------------------------------------------------- shape of the links

\* the keys met from a key by following links[k], at most `fuel` of them
RECURSIVE LevelChainFrom(_, _, _, _)
LevelChainFrom(nds, key, k, fuel) ==
    IF key = NoKey \/ fuel = 0 THEN <<>>
    ELSE <<key>> \o LevelChainFrom(nds, nds[key].links[k], k, fuel - 1)

\* the level-k chain that starts at the head
LevelChain(nds, head_key, k) == LevelChainFrom(nds, head_key, k, Len(nds) + 1)

Range(seq) == {seq[i] : i \in DOMAIN seq}

IndexIn(seq, x) == CHOOSE i \in DOMAIN seq : seq[i] = x

\* a occurs in b, in the same relative order
IsSubsequence(a, b) ==
    /\ Range(a) \subseteq Range(b)
    /\ \A i \in DOMAIN a, j \in DOMAIN a :
           i < j => IndexIn(b, a[i]) < IndexIn(b, a[j])

\* the head has a link that skips over its level-0 successor
HeadSkips(i) ==
    /\ lines[i] # NoKey
    /\ \E k \in Levels : nodes[lines[i]].links[k] \notin {NoKey, nodes[lines[i]].links[0]}

\* C15: every present link of every node, at every level, refers to a node
\* that comes strictly later on the terminating level-0 chain of the node's
\* list: never backwards, never to the node itself, never outside the list.
C15_LinksPointForward ==
    \A n \in 1..Len(nodes), k \in Levels :
        nodes[n].links[k] # NoKey =>
            \E i \in LineIxs :
                LET ks == IterKeys(nodes, lines[i])
                IN  /\ ChainTerminates(i)
                    /\ \E a \in DOMAIN ks, b \in DOMAIN ks :
                           a < b /\ ks[a] = n /\ ks[b] = nodes[n].links[k]

\* three nodes on one line, the head's shortcut skipping the middle one
C15_Witness ==
    /\ last.op = "insert"
    /\ Len(IterKeys(nodes, lines[0])) = 3
    /\ HeadSkips(0)

\* the debug cursors when the renderer is about to visit the j-th node
CursorsBefore(i, j) ==
    LET ks == IterKeys(nodes, lines[i])
    IN  FmtNodes(nodes, notes, SubSeq(ks, 1, j - 1), 1,
                 init_node_dbg_ptrs(lines[i]), <<>>).ptrs

\* C16: rendering a list never trips the node renderer's assertion: every
\* node with links[k] present is on the level-k chain from the head, and
\* when the renderer visits it the level-k cursor points at it.
C16_RenderNeverTrips ==
    /\ ~panicked
    /\ \A i \in LineIxs :
           LET ks == IterKeys(nodes, lines[i])
           IN  /\ SkipListFmt(nodes, notes, lines[i], debug_ptrs).ok
               /\ \A j \in DOMAIN ks, k \in Levels :
                      nodes[ks[j]].links[k] # NoKey =>
                          /\ ks[j] \in Range(LevelChain(nodes, lines[i], k))
                          /\ CursorsBefore(i, j)[k] = ks[j]

\* a three-node list whose head skips its successor was rendered
C16_Witness ==
    /\ last.op = "render"
    /\ last.ok
    /\ Len(last.cells) = 3
    /\ HeadSkips(0)

\* C17: each level's chain from the head is a subsequence of the chain one
\* level below, and a non-empty list's head is the first node of every chain.
C17_ChainsNest ==
    \A i \in LineIxs :
        /\ ChainTerminates(i)
        /\ \A k \in Levels :
               /\ lines[i] # NoKey => LevelChain(nodes, lines[i], k)[1] = lines[i]
               /\ k >= 1 => IsSubsequence(LevelChain(nodes, lines[i], k),
                                          LevelChain(nodes, lines[i], k - 1))

\* the level-1 chain has two of the three nodes of the level-0 chain
C17_Witness ==
    /\ last.op = "insert"
    /\ Len(LevelChain(nodes, lines[0], 0)) = 3
    /\ Len(LevelChain(nodes, lines[0], 1)) = 2
    /\ LevelChain(nodes, lines[0], 1)[2] = LevelChain(nodes, lines[0], 0)[3]

\* ------------------------------------------------------------- search

EndOf(key) == NoteOf(nodes, notes, key).end_beat

\* the last node of a chain whose end is strictly below target_val
LastBelow(chain, target_val) ==
    chain[SetMax({j \in DOMAIN chain : EndOf(chain[j]) < target_val})]

\* the search recorded in last left, at every level, the last node of that
\* level's chain that ends strictly below the target
SearchFoundLast ==
    \A k \in Levels :
        /\ last.levels[k] = LastBelow(LevelChain(nodes, lines[0], k), last.target_val)
        /\ EndOf(last.levels[k]) # last.target_val

SearchedBelowHead ==
    /\ last.op = "search"
    /\ EndOf(lines[0]) < last.target_val

\* C18 as stated: on a list whose level-0 chain is strictly increasing,
\* searched from its head with head.end < target, levels[k] is the last node
\* of the level-k chain whose end is strictly less than the target.
C18_SearchOnIncreasingChain ==
    (SearchedBelowHead /\ ChainTerminates(0) /\ StrictlyIncreasing(LineNotes(0)))
        => SearchFoundLast

\* C18 amended: the same when, in addition, the intervals of the list are
\* pairwise non-overlapping.
C18_SearchOnWellOrderedChain ==
    (SearchedBelowHead /\ WellOrdered(0)) => SearchFoundLast

\* three well-ordered intervals, the search passing the head at level 0 only
\* and stopping before a node whose end equals the target
C18_Witness ==
    /\ SearchedBelowHead
    /\ WellOrdered(0)
    /\ Len(LineNotes(0)) = 3
    /\ last.levels[0] # lines[0]
    /\ last.levels[1] = lines[0]
    /\ nodes[lines[0]].links[1] # NoKey
    /\ \E j \in 1..3 : LineNotes(0)[j].end_beat = last.target_val

\* an insert or a gap query has run, with the target it searched for
Searched == last.op \in {"insert", "get_bounds"}

SearchTarget == IF last.op = "insert" THEN last.note.start_beat ELSE last.beat

\* C19 as stated: every invocation of search made by insert or get_bounds,
\* recursive ones included, starts at a node whose end is strictly less than
\* the target.
C19_SearchStartsBelow ==
    Searched => \A c \in DOMAIN last.calls : EndOf(last.calls[c]) < SearchTarget

\* C19 amended: every invocation starts at a node whose end is at most the
\* target; strictly less in the call made by get_bounds and in every
\* recursive call, while the call made by insert may start at a head whose
\* end equals the target.
C19_SearchStartsAtOrBelow ==
    Searched =>
        \A c \in DOMAIN last.calls :
            /\ EndOf(last.calls[c]) <= SearchTarget
            /\ (c > 1 \/ last.op = "get_bounds") => EndOf(last.calls[c]) < SearchTarget

\* an insert searched from a head that ends at the new interval's start and
\* recursed into a later node
C19_Witness ==
    /\ last.op = "insert"
    /\ Len(last.calls) = 2
    /\ EndOf(last.calls[1]) = last.note.start_beat
    /\ EndOf(last.calls[2]) < last.note.start_beat

\* C20: the debug assertion at the top of search, that the start node's end
\* is <= the target, holds at every invocation made by insert and
\* get_bounds, recursive invocations included.
C20_SearchAssertionHolds ==
    Searched => \A c \in DOMAIN last.calls : EndOf(last.calls[c]) <= SearchTarget

\* a gap query whose search recursed twice
C20_Witness ==
    /\ last.op = "get_bounds"
    /\ Len(last.calls) = 3
    /\ last.result # NoneV

\* ---------------------------------------------- the two branches of insert

\* this step is an insert into a non-empty list
InsertStep ==
    /\ last'.op = "insert"
    /\ Len(nodes') > Len(nodes)
    /\ lines[last'.line_ix] # NoKey

\* C21: an insert into a non-empty list of an interval that starts before
\* the head's end, with drawn level k, makes the new node the head; its
\* links[0..=k] point to the old head, its links above k are the old head's
\* former ones, the old head's links above k are empty and its links[0..=k]
\* unchanged, and no other node changes.
C21_HeadReplacement ==
    [][(/\ InsertStep
        /\ last'.note.start_beat < NoteOf(nodes, notes, lines[last'.line_ix]).end_beat)
       => LET old == lines[last'.line_ix]
              new == Len(nodes) + 1
              k == last'.level
          IN  /\ Len(nodes') = new
              /\ lines'[last'.line_ix] = new
              /\ NoteOf(nodes', notes', new) = last'.note
              /\ \A l \in Levels :
                     /\ nodes'[new].links[l] = IF l <= k THEN old ELSE nodes[old].links[l]
                     /\ nodes'[old].links[l] = IF l <= k THEN nodes[old].links[l] ELSE NoKey
              /\ nodes'[old].val_slot_key = nodes[old].val_slot_key
              /\ \A n \in 1..Len(nodes) : n # old => nodes'[n] = nodes[n]]_vars

\* a head drawn at level 1 replaced a head that had a level-2 shortcut: the
\* new head took the shortcut over and the old head lost it
C21_Witness ==
    /\ last.op = "insert"
    /\ last.level = 1
    /\ lines[0] = 3
    /\ nodes[3].links[0] = nodes[3].links[1]
    /\ nodes[3].links[2] \notin {NoKey, nodes[3].links[0]}
    /\ nodes[nodes[3].links[0]].links[2] = NoKey
    /\ nodes[nodes[3].links[0]].links[0] = nodes[3].links[2]

\* C22: an insert that takes the search path with drawn level k splices the
\* new node, at each level i <= k, immediately after the predecessor the
\* search found for level i; above k the new node's links are empty and no
\* existing node's link is modified; the head does not change.
C22_MidListInsertion ==
    [][(/\ InsertStep
        /\ ~(last'.note.start_beat < NoteOf(nodes, notes, lines[last'.line_ix]).end_beat))
       => LET head == lines[last'.line_ix]
              new == Len(nodes) + 1
              k == last'.level
              pred == search(nodes, notes, last'.note.start_beat, head,
                             [l \in Levels |-> head]).levels
          IN  /\ Len(nodes') = new
              /\ lines' = lines
              /\ NoteOf(nodes', notes', new) = last'.note
              /\ \A i \in Levels : i <= k =>
                     /\ nodes'[new].links[i] = nodes[pred[i]].links[i]
                     /\ nodes'[pred[i]].links[i] = new
              /\ \A j \in Levels : j > k =>
                     /\ nodes'[new].links[j] = NoKey
                     /\ \A n \in 1..Len(nodes) : nodes'[n].links[j] = nodes[n].links[j]]_vars

\* a node drawn at level 1 went in at the end of a two-node list: its
\* level-0 predecessor is the second node, its level-1 predecessor the head
C22_Witness ==
    /\ last.op = "insert"
    /\ last.level = 1
    /\ Len(last.calls) = 2
    /\ lines[0] = 1
    /\ nodes[1].links[0] = 2
    /\ nodes[1].links[1] = 3
    /\ nodes[2].links[0] = 3
    /\ nodes[3].links = blank_shortcuts

\* ------------------------------------------------------ the rendered text

\* the level whose row is the i-th of the rendering
LevelOfRow(i) == NOTE_SKIP_LIST_LEVELS - i

\* a node's segment of a row: its label's width, a dash, and the last mark
SegmentWidth(key) == Len(NoteLabel(NoteOf(nodes, notes, key))) + 2

RECURSIVE SegmentStart(_, _)
SegmentStart(keys, j) ==
    IF j = 1 THEN 1 ELSE SegmentStart(keys, j - 1) + SegmentWidth(keys[j - 1])

\* the segment of the j-th node of the list in a row
Segment(row, keys, j) ==
    SubSeq(row, SegmentStart(keys, j), SegmentStart(keys, j) + SegmentWidth(keys[j]) - 1)

\* a list was rendered and the assertion held
Rendered == last.op = "render" /\ last.ok

\* C23: the rendering has one row per level, the highest level first, each
\* ended by the row marker; on the row of level k a node shows its label
\* exactly when it is on the level-k chain from the head (the head on every
\* row), and any other node shows dashes in the label's place.
C23_RowsShowChains ==
    Rendered =>
        LET keys == IterKeys(nodes, lines[0])
        IN  /\ Len(last.rows) = NOTE_SKIP_LIST_LEVELS
            /\ \A i \in 1..NOTE_SKIP_LIST_LEVELS :
                   LET row == last.rows[i]
                       k == LevelOfRow(i)
                       chain == Range(LevelChain(nodes, lines[0], k))
                   IN  /\ Len(row) = SegmentStart(keys, Len(keys) + 1)
                       /\ row[Len(row)] = "x"
                       /\ \A c \in 1..(Len(row) - 1) : row[c] # "x"
                       /\ \A j \in DOMAIN keys :
                              LET seg == Segment(row, keys, j)
                                  label == NoteLabel(NoteOf(nodes, notes, keys[j]))
                                  body == SubSeq(seg, 1, Len(seg) - 1)
                              IN  /\ keys[j] \in chain
                                         => body = label \o <<"-">>
                                  /\ keys[j] \notin chain
                                         => body = Dashes(Len(label) + 1)
                                  /\ j = 1 => keys[j] \in chain

\* three nodes with different labels; the level-1 chain skips the middle one
C23_Witness ==
    /\ Rendered
    /\ Len(last.rows) = NOTE_SKIP_LIST_LEVELS
    /\ Len(IterKeys(nodes, lines[0])) = 3
    /\ HeadSkips(0)
    /\ Len(LevelChain(nodes, lines[0], 1)) = 2
    /\ StrictlyIncreasing(LineNotes(0))

\* the first node of the level-k chain that comes after the j-th node of the
\* list in level-0 order, NoKey when there is none
NextOnChain(keys, k, j) ==
    LET chain == Range(LevelChain(nodes, lines[0], k))
        after == {m \in (j + 1)..Len(keys) : keys[m] \in chain}
    IN  IF after = {} THEN NoKey ELSE keys[SetMin(after)]

CursorArrays ==
    {blank_shortcuts}
        \cup {init_node_dbg_ptrs(k) : k \in 1..Len(nodes)}
        \cup {nodes[k].links : k \in 1..Len(nodes)}

\* C25: what a rendering of the list yields does not depend on what the
\* debug cursors held before it: whether the assertion held, the label and
\* arrowhead of every node at every level (from which alone the rows are
\* written), and the cursors left behind.
C25_RenderIgnoresCursors ==
    [][(~panicked /\ last'.op = "render")
       => \A ptrs \in CursorArrays \cup {debug_ptrs} :
              SkipListFmt(nodes, notes, lines[0], ptrs)
                  = [ok |-> last'.ok, ptrs |-> debug_ptrs', cells |-> last'.cells]]_vars

\* a three-node list was rendered when the cursors held the links of its head
C25_Witness ==
    /\ Rendered
    /\ Len(IterKeys(nodes, lines[0])) = 3
    /\ HeadSkips(0)
    /\ last.cursors = nodes[lines[0]].links
    /\ last.cursors # blank_shortcuts
    /\ debug_ptrs = blank_shortcuts

====
